---- MODULE Spec2Model ----
(***************************************************************************)
(* Model of backend/server.js: the "AI image generator" HTTP service.      *)
(*                                                                         *)
(* JavaScript strings are sequences of one-character strings, so that      *)
(* split, slice, join, trim, toLowerCase, charAt and endsWith are computed *)
(* as the code computes them.  A JavaScript value is a record tagged with  *)
(* its type.  Node runs each handler to completion (every call in the      *)
(* handlers is synchronous), so a handler is one action.                   *)
(***************************************************************************)
EXTENDS Integers, Sequences, FiniteSets, TLC

VARIABLES
  aiTemplates,  \* the module-level palette table (own properties)
  store,        \* files, by path from the images directory: "complete" | "partial"
  now,          \* the clock, in seconds since 2026-11-05T00:00:00Z
  req,          \* the request received last, waiting for or past its handler
  sent,         \* the responses sent for that request, in order
  cpc,          \* composer: position in generateAIImage
  cprompt,      \* composer: the prompt argument
  cstyle,       \* composer: the style argument
  colors,       \* composer: the resolved palette (a JavaScript value)
  gradient,     \* composer: colour stops added to the background gradient
  ctx,          \* composer: the drawing state of the 2d context
  stack,        \* composer: the context's stack of saved drawing states
  i,            \* composer: loop index of generateAIShapes
  shape,        \* composer: the locals sampled for the current shape
  painted,      \* composer: what the current shape's drawing call painted
  drawn,        \* composer: number of shape primitives drawn so far
  words,        \* addAIText: prompt.split(' ')
  lines,        \* addAIText: lines pushed so far
  currentLine,  \* addAIText: the line being filled
  wi,           \* addAIText: loop index over words
  wpc           \* addAIText: position

vars == <<aiTemplates, store, now, req, sent, cpc, cprompt, cstyle, colors,
          gradient, ctx, stack, i, shape, painted, drawn,
          words, lines, currentLine, wi, wpc>>

serverVars == <<aiTemplates, store, now, req, sent>>
composerVars == <<cpc, cprompt, cstyle, colors, gradient, ctx, stack, i,
                  shape, painted, drawn>>
wrapVars == <<words, lines, currentLine, wi, wpc>>

(***************************************************************************)
(* Bounds of the model.                                                    *)
(***************************************************************************)
MaxFiles == 2     \* generate is taken while the directory holds fewer entries
MaxWords == 3     \* words of a prompt handed to the word wrap

(***************************************************************************)
(* JavaScript values and strings.                                          *)
(***************************************************************************)
Undefined == [t |-> "undefined"]
Str(s) == [t |-> "string", v |-> s]
Arr(a) == [t |-> "array", v |-> a]
Obj(n) == [t |-> "object", v |-> n]
Num(n) == [t |-> "number", v |-> n]

IsString(x) == x.t = "string"

LowerLetters == <<"a","b","c","d","e","f","g","h","i","j","k","l","m",
                  "n","o","p","q","r","s","t","u","v","w","x","y","z">>
UpperLetters == <<"A","B","C","D","E","F","G","H","I","J","K","L","M",
                  "N","O","P","Q","R","S","T","U","V","W","X","Y","Z">>
Digits == <<"0","1","2","3","4","5","6","7","8","9">>

WhiteSpace == {" ", "\t", "\n"}

ToLowerChar(c) ==
  IF \E k \in 1..26 : UpperLetters[k] = c
  THEN LowerLetters[CHOOSE k \in 1..26 : UpperLetters[k] = c]
  ELSE c

ToUpperChar(c) ==
  IF \E k \in 1..26 : LowerLetters[k] = c
  THEN UpperLetters[CHOOSE k \in 1..26 : LowerLetters[k] = c]
  ELSE c

ToLowerCase(s) == [k \in 1..Len(s) |-> ToLowerChar(s[k])]
ToUpperCase(s) == [k \in 1..Len(s) |-> ToUpperChar(s[k])]

\* String.prototype.slice(a) and slice(a, b) for 0 <= a, b (0-based, b exclusive)
Min(a, b) == IF a < b THEN a ELSE b
Slice(s, a, b) == SubSeq(s, a + 1, Min(b, Len(s)))
SliceFrom(s, a) == SubSeq(s, a + 1, Len(s))
CharAt(s, k) == IF k < Len(s) THEN <<s[k + 1]>> ELSE <<>>

RECURSIVE TrimStart(_)
TrimStart(s) ==
  IF s # <<>> /\ Head(s) \in WhiteSpace THEN TrimStart(Tail(s)) ELSE s

RECURSIVE TrimEnd(_)
TrimEnd(s) ==
  IF s # <<>> /\ s[Len(s)] \in WhiteSpace
  THEN TrimEnd(SubSeq(s, 1, Len(s) - 1)) ELSE s

Trim(s) == TrimEnd(TrimStart(s))

\* String.prototype.split(sep) for a one-character separator: never empty
RECURSIVE SplitAcc(_, _, _)
SplitAcc(s, sep, cur) ==
  IF s = <<>> THEN <<cur>>
  ELSE IF Head(s) = sep THEN <<cur>> \o SplitAcc(Tail(s), sep, <<>>)
  ELSE SplitAcc(Tail(s), sep, Append(cur, Head(s)))

Split(s, sep) == SplitAcc(s, sep, <<>>)

\* Array.prototype.join(sep)
RECURSIVE Join(_, _)
Join(ws, sep) ==
  IF ws = <<>> THEN <<>>
  ELSE IF Len(ws) = 1 THEN ws[1]
  ELSE ws[1] \o sep \o Join(Tail(ws), sep)

ReplaceAll(s, from, to) == [k \in 1..Len(s) |-> IF s[k] = from THEN to ELSE s[k]]

EndsWith(s, suf) ==
  /\ Len(s) >= Len(suf)
  /\ SubSeq(s, Len(s) - Len(suf) + 1, Len(s)) = suf

Contains(s, c) == \E k \in 1..Len(s) : s[k] = c

Pad2(n) == <<Digits[((n \div 10) % 10) + 1], Digits[(n % 10) + 1]>>

(***************************************************************************)
(* The style palette table (aiTemplates) and property lookup on it.        *)
(***************************************************************************)
AbstractName == <<"a","b","s","t","r","a","c","t">>
NatureName == <<"n","a","t","u","r","e">>
TechName == <<"t","e","c","h">>
SunsetName == <<"s","u","n","s","e","t">>
OceanName == <<"o","c","e","a","n">>

AbstractColors == <<"#FF6B6B", "#4ECDC4", "#45B7D1", "#96CEB4", "#FFEAA7">>
NatureColors == <<"#2E8B57", "#3CB371", "#98FB98", "#8FBC8F", "#00FA9A">>
TechColors == <<"#4169E1", "#1E90FF", "#00BFFF", "#87CEEB", "#4682B4">>
SunsetColors == <<"#FF6B6B", "#FFA726", "#FFEAA7", "#FD79A8", "#E17055">>
OceanColors == <<"#0077B6", "#00B4D8", "#90E0EF", "#CAF0F8", "#03045E">>

\* The object literal: its own properties in insertion order
AiTemplatesLiteral ==
  << [key |-> AbstractName, value |-> AbstractColors],
     [key |-> NatureName,   value |-> NatureColors],
     [key |-> TechName,     value |-> TechColors],
     [key |-> SunsetName,   value |-> SunsetColors],
     [key |-> OceanName,    value |-> OceanColors] >>

\* Property names an object literal inherits from Object.prototype
ConstructorName == <<"c","o","n","s","t","r","u","c","t","o","r">>
ToStringName == <<"t","o","S","t","r","i","n","g">>
ProtoName == <<"_","_","p","r","o","t","o","_","_">>
ObjectPrototypeKeys == {ConstructorName, ToStringName, ProtoName}

HasOwn(table, key) == \E k \in 1..Len(table) : table[k].key = key
OwnValue(table, key) == table[CHOOSE k \in 1..Len(table) : table[k].key = key].value

\* table[key]: an own property, else an inherited one, else undefined
GetProp(table, key) ==
  IF HasOwn(table, key) THEN Arr(OwnValue(table, key))
  ELSE IF key \in ObjectPrototypeKeys THEN Obj(key)
  ELSE Undefined

\* value[k] for a 0-based index k
GetIndex(x, k) ==
  IF x.t = "array" /\ k < Len(x.v) THEN Str(x.v[k + 1]) ELSE Undefined

Truthy(x) ==
  CASE x.t = "undefined" -> FALSE
    [] x.t = "string" -> x.v # <<>>
    [] x.t = "number" -> x.v # 0
    [] OTHER -> TRUE

\* aiTemplates[style] || aiTemplates.abstract
ResolveColors(table, style) ==
  IF Truthy(GetProp(table, style)) THEN GetProp(table, style)
  ELSE GetProp(table, AbstractName)

\* gradient.addColorStop(offset, color) raises a TypeError unless color is a string
AddColorStopThrows(color) == ~IsString(color)

\* generateAIImage raises iff one of its two addColorStop calls does; the shapes,
\* the text and the signature raise nothing
ComposeThrows(table, style) ==
  \/ AddColorStopThrows(GetIndex(ResolveColors(table, style), 0))
  \/ AddColorStopThrows(GetIndex(ResolveColors(table, style), 1))

(***************************************************************************)
(* The clock and generateFilename.                                         *)
(***************************************************************************)
\* new Date().toISOString(): the clock stays within November 2026
ToISOString(n) ==
  <<"2","0","2","6","-","1","1","-">> \o Pad2(5 + (n \div 86400))
    \o <<"T">> \o Pad2((n \div 3600) % 24) \o <<":">> \o Pad2((n \div 60) % 60)
    \o <<":">> \o Pad2(n % 60) \o <<".","0","0","0","Z">>

\* new Date().toTimeString(), the local time, of a process running in UTC
ToTimeString(n) ==
  Pad2((n \div 3600) % 24) \o <<":">> \o Pad2((n \div 60) % 60) \o <<":">>
    \o Pad2(n % 60) \o <<" ","G","M","T","+","0","0","0","0">>

\* uuidv4(): two of the version-4 identifiers the generator can return, and one
\* more that shares its first six characters with the first
Uuids ==
  { <<"3","f","a","0","1","c","9","e","-","4","b","1","d">>,
    <<"3","f","a","0","1","c","7","7","-","4","c","0","2">>,
    <<"b","0","7","e","4","2","d","1","-","4","a","9","f">> }

AiPrefix == <<"a","i","-">>
PngSuffix == <<".","p","n","g">>
Hyphen == <<"-">>

generateFilenameNoId(prompt, style, clock, uuid) ==
  LET dateStr == Split(ToISOString(clock), "T")[1]
      timeStr == ReplaceAll(Split(ToTimeString(clock), " ")[1], ":", "-")
      promptShort == ToLowerCase(Join(Slice(Split(prompt, " "), 0, 3), Hyphen))
  IN AiPrefix \o style \o Hyphen \o dateStr \o Hyphen \o timeStr \o Hyphen
       \o promptShort \o PngSuffix

generateFilename(prompt, style, clock, uuid) ==
  LET dateStr == Split(ToISOString(clock), "T")[1]
      timeStr == ReplaceAll(Split(ToTimeString(clock), " ")[1], ":", "-")
      promptShort == ToLowerCase(Join(Slice(Split(prompt, " "), 0, 3), Hyphen))
      randomId == Slice(uuid, 0, 6)
  IN AiPrefix \o style \o Hyphen \o dateStr \o Hyphen \o timeStr \o Hyphen
       \o promptShort \o Hyphen \o randomId \o PngSuffix

(***************************************************************************)
(* The image store: files by their path relative to the images directory,   *)
(* and the file system calls on it.                                        *)
(***************************************************************************)
\* Outcomes of the I/O of one generate request
IoOutcomes == {"ok", "encodeFails", "writeCutShort"}

\* path.join(imagesDir, filename), relative to imagesDir: the segments left
\* after "" and "." are dropped and ".." removes the segment before it
RECURSIVE NormalizeSegments(_, _)
NormalizeSegments(segs, acc) ==
  IF segs = <<>> THEN acc
  ELSE LET seg == Head(segs)
       IN IF seg = <<>> \/ seg = <<".">>
          THEN NormalizeSegments(Tail(segs), acc)
          ELSE IF seg = <<".",".">> /\ acc # <<>> /\ acc[Len(acc)] # <<".",".">>
          THEN NormalizeSegments(Tail(segs), SubSeq(acc, 1, Len(acc) - 1))
          ELSE NormalizeSegments(Tail(segs), Append(acc, seg))

JoinPath(filename) == NormalizeSegments(Split(filename, "/"), <<>>)

\* The directories of a path below the ones ".." climbs to
RECURSIVE DropParents(_)
DropParents(segs) ==
  IF segs # <<>> /\ Head(segs) = <<".",".">> THEN DropParents(Tail(segs)) ELSE segs

\* The images directory holds no subdirectory; its ancestors exist
MissingDirectory(filename) == Len(DropParents(JoinPath(filename))) # 1

FilePath(filename) == Join(JoinPath(filename), <<"/">>)

Written(dir, path, status) ==
  [n \in DOMAIN dir \cup {path} |-> IF n = path THEN status ELSE dir[n]]

writeFileSyncSwallow(dir, filename, io) ==
  IF MissingDirectory(filename)
  THEN [threw |-> TRUE, dir |-> dir]
  ELSE [threw |-> FALSE,
        dir |-> Written(dir, FilePath(filename),
                        IF io = "writeCutShort" THEN "partial" ELSE "complete")]

\* writeFileSync(join(imagesDir, filename), buffer): [threw, dir].  A path through
\* a directory that does not exist raises ENOENT and writes nothing.  A write
\* that is cut short (ENOSPC) leaves the truncated file behind.
writeFileSync(dir, filename, io) ==
  IF MissingDirectory(filename)
  THEN [threw |-> TRUE, dir |-> dir]
  ELSE IF io = "writeCutShort"
  THEN [threw |-> TRUE, dir |-> Written(dir, FilePath(filename), "partial")]
  ELSE [threw |-> FALSE, dir |-> Written(dir, FilePath(filename), "complete")]

\* readdirSync(imagesDir): the files directly in the images directory
readdirSync(dir) == {n \in DOMAIN dir : ~Contains(n, "/")}

UrlFor(filename) == <<"http://localhost:", "5000", "/images/">> \o filename

Json(status, body) == [status |-> status, body |-> body]

GenerateError ==
  Json(500, [success |-> FALSE, error |-> "AI failed to generate image"])
PromptRequired ==
  Json(400, [success |-> FALSE, error |-> "Prompt is required"])
ListError ==
  Json(500, [success |-> FALSE, error |-> "Failed to load images"])

PromptBlankNoTrim(prompt) == ~Truthy(prompt)

\* !prompt || prompt.trim().length === 0, for a prompt that has a trim method
PromptBlank(prompt) ==
  ~Truthy(prompt) \/ (IsString(prompt) /\ Len(Trim(prompt.v)) = 0)

\* prompt.trim is not a function: a TypeError, caught by the handler
TrimThrows(prompt) == Truthy(prompt) /\ ~IsString(prompt)

\* The handler of POST /api/generate, run to completion: [sent, dir]
GenerateHandler(table, dir, clock, promptIn, styleIn, uuid, io) ==
  LET style == IF styleIn = Undefined THEN AbstractName ELSE styleIn.v
  IN IF TrimThrows(promptIn)
     THEN [sent |-> <<GenerateError>>, dir |-> dir]
     ELSE IF PromptBlank(promptIn)
     THEN [sent |-> <<PromptRequired>>, dir |-> dir]
     ELSE
       LET prompt == promptIn.v
           filename == generateFilename(prompt, style, clock, uuid)
           w == writeFileSync(dir, filename, io)
       IN IF ComposeThrows(table, style) \/ io = "encodeFails"
          THEN [sent |-> <<GenerateError>>, dir |-> dir]
          ELSE IF w.threw
          THEN [sent |-> <<GenerateError>>, dir |-> w.dir]
          ELSE [sent |-> << Json(200,
                              [success |-> TRUE,
                               filename |-> filename,
                               prompt |-> prompt,
                               style |-> style,
                               url |-> UrlFor(filename),
                               timestamp |-> ToISOString(clock),
                               message |-> "AI image generated successfully!"]) >>,
                dir |-> w.dir]

\* The module is an ES module (import statements, import.meta): it has no require
RequireDefined == FALSE

RECURSIVE SetToSeq(_)
SetToSeq(S) ==
  IF S = {} THEN <<>>
  ELSE LET x == CHOOSE y \in S : TRUE IN <<x>> \o SetToSeq(S \ {x})

\* The handler of GET /api/images, run to completion: the responses sent.  The
\* map callback evaluates require('fs') for each listed file before it can read
\* the file's size; the sort compares equal timestamps and reorders nothing.
ImagesHandler(dir, clock, scanOk) ==
  LET files == SetToSeq({n \in readdirSync(dir) : EndsWith(n, PngSuffix)})
      images == [k \in 1..Len(files) |->
                   [filename |-> files[k],
                    url |-> UrlFor(files[k]),
                    created |-> ToISOString(clock)]]
  IN IF ~scanOk THEN <<ListError>>
     ELSE IF Len(files) > 0 /\ ~RequireDefined THEN <<ListError>>
     ELSE << Json(200, [success |-> TRUE, count |-> Len(images), images |-> images]) >>

DisplayNameRaw(style) == style

\* style.charAt(0).toUpperCase() + style.slice(1)
DisplayName(style) == ToUpperCase(CharAt(style, 0)) \o SliceFrom(style, 1)

\* The handler of GET /api/styles
StylesHandler(table) ==
  << Json(200, [success |-> TRUE,
                styles |-> [k \in 1..Len(table) |->
                              [name |-> table[k].key,
                               colors |-> table[k].value,
                               displayName |-> DisplayName(table[k].key)]]]) >>

\* The handler of GET /api/health
HealthHandler(clock) ==
  << Json(200, [status |-> "OK", service |-> "AI Image Generator",
                timestamp |-> ToISOString(clock)]) >>

(***************************************************************************)
(* The server: requests handled one at a time.                             *)
(***************************************************************************)
\* Request bodies: the prompt is absent, a string or a number; the style is
\* absent or a string
PromptInputs ==
  { Undefined,
    Str(<<>>),
    Str(<<" ", "\t">>),
    Str(<<"a"," ","b"," ","C"," ","d">>),
    Str(<<"x","/","y">>),
    Str(<<"/",".",".","/","x">>),
    Str(<<"/",".",".","/",".",".","/","x">>),
    Num(5) }

UnknownName == <<"z","z">>

StyleInputs == { Undefined, Str(UnknownName), Str(ConstructorName) }

\* Directory contents found at start-up (existsSync / mkdirSync)
NotesTxt == <<"n",".","t","x","t">>
OldPng == <<"o",".","p","n","g">>
InitialDirs ==
  { <<>>,
    [n \in {NotesTxt} |-> "complete"],
    [n \in {NotesTxt, OldPng} |-> "complete"] }

\* The seconds the clock runs through
ClockSeconds == {0, 1}

NoRequest == [state |-> "none"]

ServerInit ==
  /\ aiTemplates = AiTemplatesLiteral
  /\ store \in InitialDirs
  /\ now = 0
  /\ req = NoRequest
  /\ sent = <<>>

ComposerIdle ==
  /\ cpc = "idle"
  /\ cprompt = <<>>
  /\ cstyle = <<>>
  /\ colors = Undefined
  /\ gradient = <<>>
  /\ ctx = [globalAlpha |-> 100]
  /\ stack = <<>>
  /\ i = 0
  /\ shape = [shapeType |-> -1]
  /\ painted = [kind |-> "none"]
  /\ drawn = 0

WrapIdle ==
  /\ words = <<>>
  /\ lines = <<>>
  /\ currentLine = <<>>
  /\ wi = 0
  /\ wpc = "idle"

Init == ServerInit /\ ComposerIdle /\ WrapIdle

\* A request arrives and waits for its handler; handlers run one at a time
Requests ==
  { [route |-> "POST /api/generate", prompt |-> p, style |-> st] :
      p \in PromptInputs, st \in StyleInputs }
  \cup { [route |-> "GET /api/images"], [route |-> "GET /api/styles"],
         [route |-> "GET /api/health"] }

Receive ==
  /\ req.state # "received"
  /\ \E r \in Requests : req' = [state |-> "received", request |-> r]
  /\ sent' = <<>>
  /\ UNCHANGED <<aiTemplates, store, now, composerVars, wrapVars>>

Pending(route) == req.state = "received" /\ req.request.route = route

PostGenerate ==
  /\ Pending("POST /api/generate")
  /\ Cardinality(DOMAIN store) < MaxFiles
  /\ \E uuid \in Uuids, io \in IoOutcomes :
       LET r == GenerateHandler(aiTemplates, store, now, req.request.prompt,
                                req.request.style, uuid, io)
       IN /\ req' = [state |-> "handled", request |-> req.request, io |-> io]
          /\ sent' = r.sent
          /\ store' = r.dir
  /\ UNCHANGED <<aiTemplates, now, composerVars, wrapVars>>

GetImages ==
  /\ Pending("GET /api/images")
  /\ \E scanOk \in BOOLEAN :
       /\ req' = [state |-> "handled", request |-> req.request,
                  io |-> IF scanOk THEN "ok" ELSE "scanFails"]
       /\ sent' = ImagesHandler(store, now, scanOk)
  /\ UNCHANGED <<aiTemplates, store, now, composerVars, wrapVars>>

GetStyles ==
  /\ Pending("GET /api/styles")
  /\ req' = [state |-> "handled", request |-> req.request, io |-> "ok"]
  /\ sent' = StylesHandler(aiTemplates)
  /\ UNCHANGED <<aiTemplates, store, now, composerVars, wrapVars>>

GetHealth ==
  /\ Pending("GET /api/health")
  /\ req' = [state |-> "handled", request |-> req.request, io |-> "ok"]
  /\ sent' = HealthHandler(now)
  /\ UNCHANGED <<aiTemplates, store, now, composerVars, wrapVars>>

Tick ==
  /\ now + 1 \in ClockSeconds
  /\ now' = now + 1
  /\ UNCHANGED <<aiTemplates, store, req, sent, composerVars, wrapVars>>

Next == Receive \/ PostGenerate \/ GetImages \/ GetStyles \/ GetHealth \/ Tick

Spec == Init /\ [][Next]_vars

(***************************************************************************)
(* The composer: generateAIImage, one step per statement group.            *)
(***************************************************************************)
NumShapes == 20
WrapWidth == 700

\* The drawing state of a fresh 2d context; opacity in hundredths
FreshContext ==
  [globalAlpha |-> 100, fillStyle |-> "#000000", strokeStyle |-> "#000000",
   lineWidth |-> 1, font |-> "10px sans-serif", textAlign |-> "start",
   textBaseline |-> "alphabetic"]

RestoreKeep(c, stk) ==
  [ctx |-> c, stack |-> IF stk = <<>> THEN stk ELSE SubSeq(stk, 1, Len(stk) - 1)]

\* ctx.save() and ctx.restore(): [ctx, stack]
Save(c, stk) == [ctx |-> c, stack |-> Append(stk, c)]
Restore(c, stk) ==
  IF stk = <<>> THEN [ctx |-> c, stack |-> stk]
  ELSE [ctx |-> stk[Len(stk)], stack |-> SubSeq(stk, 1, Len(stk) - 1)]

\* Values Math.random() yields for the opacity 0.2 + r * 0.5 (hundredths) and
\* for the stroke width 2 + r * 8
AlphaSamples == {20, 69}
LineWidthSamples == {2, 9}

\* Advance width in px of a glyph at 'bold 32px Arial'; ctx.measureText(s).width
GlyphWidth(c) ==
  CASE c = " " -> 9
    [] c = "i" -> 9
    [] c = "W" -> 30
    [] OTHER -> 18

RECURSIVE MeasureText(_)
MeasureText(s) ==
  IF s = <<>> THEN 0 ELSE GlyphWidth(Head(s)) + MeasureText(Tail(s))

WrapStepNoLimit(st, word) ==
  [currentLine |-> st.currentLine \o <<" ">> \o word, lines |-> st.lines]

\* One iteration of the wrap loop of addAIText on the word words[k]
WrapStep(st, word) ==
  LET testLine == st.currentLine \o <<" ">> \o word
  IN IF MeasureText(testLine) < WrapWidth
     THEN [currentLine |-> testLine, lines |-> st.lines]
     ELSE [currentLine |-> word, lines |-> Append(st.lines, st.currentLine)]

RECURSIVE WrapFrom(_, _, _)
WrapFrom(st, ws, k) ==
  IF k > Len(ws) THEN st ELSE WrapFrom(WrapStep(st, ws[k]), ws, k + 1)

\* The lines addAIText draws for a prompt
WrapLines(prompt) ==
  LET ws == Split(prompt, " ")
      st == WrapFrom([currentLine |-> ws[1], lines |-> <<>>], ws, 2)
  IN Append(st.lines, st.currentLine)

\* Arguments of generateAIImage: the five table keys, an unknown name and two
\* names Object.prototype defines; prompts are non-blank (the handler's check)
ComposeStyles ==
  { AbstractName, NatureName, TechName, SunsetName, OceanName, UnknownName,
    ConstructorName, ProtoName }
ComposePrompts == { <<"h","i">>, <<"a"," ","W">> }

ServerIdle ==
  /\ aiTemplates = AiTemplatesLiteral
  /\ store = <<>>
  /\ now = 0
  /\ req = NoRequest
  /\ sent = <<>>

ComposeInit ==
  /\ ServerIdle
  /\ WrapIdle
  /\ cpc = "resolve"
  /\ cprompt \in ComposePrompts
  /\ cstyle \in ComposeStyles
  /\ colors = Undefined
  /\ gradient = <<>>
  /\ ctx = FreshContext
  /\ stack = <<>>
  /\ i = 0
  /\ shape = [shapeType |-> -1]
  /\ painted = [kind |-> "none"]
  /\ drawn = 0

\* line 41
ResolvePalette ==
  /\ cpc = "resolve"
  /\ colors' = ResolveColors(aiTemplates, cstyle)
  /\ cpc' = "background"
  /\ UNCHANGED <<serverVars, wrapVars, cprompt, cstyle, gradient, ctx, stack,
                 i, shape, painted, drawn>>

\* lines 44-49: the gradient and the background fill
Background ==
  /\ cpc = "background"
  /\ IF AddColorStopThrows(GetIndex(colors, 0))
     THEN /\ cpc' = "threw"
          /\ UNCHANGED <<gradient, ctx>>
     ELSE IF AddColorStopThrows(GetIndex(colors, 1))
     THEN /\ cpc' = "threw"
          /\ gradient' = <<GetIndex(colors, 0).v>>
          /\ UNCHANGED ctx
     ELSE /\ cpc' = "shapes"
          /\ gradient' = <<GetIndex(colors, 0).v, GetIndex(colors, 1).v>>
          /\ ctx' = [ctx EXCEPT !.fillStyle = "gradient"]
  /\ UNCHANGED <<serverVars, wrapVars, cprompt, cstyle, colors, stack, i,
                 shape, painted, drawn>>

\* lines 65-75: the loop test, the samples, save and the two settings
BeginShape ==
  /\ cpc = "shapes"
  /\ i < NumShapes
  /\ \E shapeType \in 0..3, k \in 0..(Len(colors.v) - 1), alpha \in AlphaSamples :
       LET color == GetIndex(colors, k).v
           saved == Save(ctx, stack)
       IN /\ shape' = [shapeType |-> shapeType, color |-> color, alpha |-> alpha]
          /\ stack' = saved.stack
          /\ ctx' = [saved.ctx EXCEPT !.globalAlpha = alpha, !.fillStyle = color]
  /\ painted' = [kind |-> "none"]
  /\ cpc' = "draw"
  /\ UNCHANGED <<serverVars, wrapVars, cprompt, cstyle, colors, gradient, i, drawn>>

\* What ctx.fill() / ctx.fillRect() and ctx.stroke() paint with
Filled(kind, c) == [kind |-> kind, paint |-> c.fillStyle, alpha |-> c.globalAlpha]
Stroked(kind, c) ==
  [kind |-> kind, paint |-> c.strokeStyle, alpha |-> c.globalAlpha,
   width |-> c.lineWidth]

\* lines 77-101: the switch
DrawShape ==
  /\ cpc = "draw"
  /\ CASE shape.shapeType = 0 ->
            /\ painted' = Filled("circle", ctx)
            /\ UNCHANGED ctx
       [] shape.shapeType = 1 ->
            /\ painted' = Filled("rectangle", ctx)
            /\ UNCHANGED ctx
       [] shape.shapeType = 2 ->
            /\ painted' = Filled("triangle", ctx)
            /\ UNCHANGED ctx
       [] shape.shapeType = 3 ->
            \E w \in LineWidthSamples :
              /\ ctx' = [ctx EXCEPT !.lineWidth = w]
              /\ painted' = Stroked("line", ctx')
  /\ drawn' = drawn + 1
  /\ cpc' = "restore"
  /\ UNCHANGED <<serverVars, wrapVars, cprompt, cstyle, colors, gradient,
                 stack, i, shape>>

\* line 102 and the loop increment
EndShape ==
  /\ cpc = "restore"
  /\ LET r == Restore(ctx, stack)
     IN /\ ctx' = r.ctx
        /\ stack' = r.stack
  /\ i' = i + 1
  /\ cpc' = "shapes"
  /\ UNCHANGED <<serverVars, wrapVars, cprompt, cstyle, colors, gradient,
                 shape, painted, drawn>>

\* line 55: addAIText, the settings it leaves and the lines it draws
AddText ==
  /\ cpc = "shapes"
  /\ i >= NumShapes
  /\ ctx' = [ctx EXCEPT !.fillStyle = "#FFFFFF", !.font = "bold 32px Arial",
                        !.textAlign = "center", !.textBaseline = "middle"]
  /\ lines' = WrapLines(cprompt)
  /\ cpc' = "signature"
  /\ UNCHANGED <<serverVars, words, currentLine, wi, wpc, cprompt, cstyle,
                 colors, gradient, stack, i, shape, painted, drawn>>

\* line 58: addAISignature
AddSignature ==
  /\ cpc = "signature"
  /\ ctx' = [ctx EXCEPT !.font = "16px Arial",
                        !.fillStyle = "rgba(255, 255, 255, 0.8)",
                        !.textAlign = "center"]
  /\ cpc' = "done"
  /\ UNCHANGED <<serverVars, wrapVars, cprompt, cstyle, colors, gradient,
                 stack, i, shape, painted, drawn>>

ComposeNext ==
  ResolvePalette \/ Background \/ BeginShape \/ DrawShape \/ EndShape
    \/ AddText \/ AddSignature

SpecCompose == ComposeInit /\ [][ComposeNext]_vars

(***************************************************************************)
(* The word wrap of addAIText, one step per loop iteration.                *)
(***************************************************************************)
\* Words of the prompts handed to the wrap: the empty word two adjacent spaces
\* leave, a short word, a word of 330 px and a word of 720 px
WideWord == [k \in 1..11 |-> "W"]
OverWideWord == [k \in 1..24 |-> "W"]
WrapVocabulary == { <<>>, <<"h","i">>, WideWord, OverWideWord }

RECURSIVE WordLists(_)
WordLists(n) ==
  IF n = 0 THEN {<<>>}
  ELSE WordLists(n - 1)
         \cup { Append(ws, w) : ws \in WordLists(n - 1), w \in WrapVocabulary }

\* Non-blank prompts of up to MaxWords words
WrapPrompts ==
  { p \in { Join(ws, <<" ">>) : ws \in WordLists(MaxWords) \ {<<>>} } :
      ~PromptBlank(Str(p)) }

\* lines 113-115
WrapInit ==
  /\ ServerIdle
  /\ ComposerIdle
  /\ \E p \in WrapPrompts :
       /\ words = Split(p, " ")
       /\ currentLine = Split(p, " ")[1]
  /\ lines = <<>>
  /\ wi = 1
  /\ wpc = "loop"

\* lines 117-125
WrapWord ==
  /\ wpc = "loop"
  /\ wi < Len(words)
  /\ LET st == WrapStep([currentLine |-> currentLine, lines |-> lines], words[wi + 1])
     IN /\ currentLine' = st.currentLine
        /\ lines' = st.lines
  /\ wi' = wi + 1
  /\ UNCHANGED <<serverVars, composerVars, words, wpc>>

\* line 126
WrapFlush ==
  /\ wpc = "loop"
  /\ wi >= Len(words)
  /\ lines' = Append(lines, currentLine)
  /\ wpc' = "done"
  /\ UNCHANGED <<serverVars, composerVars, words, currentLine, wi>>

WrapNext == WrapWord \/ WrapFlush

SpecWrap == WrapInit /\ [][WrapNext]_vars

(***************************************************************************)
(* Properties.                                                             *)
(***************************************************************************)
Handled(route) == req.state = "handled" /\ req.request.route = route
HandledNow(route) ==
  /\ req.state = "received"
  /\ req.request.route = route
  /\ req'.state = "handled"

\* The style the handler works with: the body's, 'abstract' when absent
StyleOf(r) == IF r.style = Undefined THEN AbstractName ELSE r.style.v

\* A prompt that is missing, empty or whitespace-only
Blank(p) ==
  p = Undefined \/ (IsString(p) /\ \A k \in 1..Len(p.v) : p.v[k] \in WhiteSpace)

Succeeded(rs) == Len(rs) = 1 /\ rs[1].status = 200 /\ rs[1].body.success
CompleteFiles(dir) == {n \in DOMAIN dir : dir[n] = "complete"}
Generated(dir) == {n \in DOMAIN dir : SubSeq(n, 1, 3) = AiPrefix}
RandomIdOf(filename) == SubSeq(filename, Len(filename) - 9, Len(filename) - 4)
Range(f) == {f[k] : k \in DOMAIN f}

\* C1: a generate request with a non-blank prompt and any style, the encoder and
\* the disk not failing, is answered 200 success:true with a filename of the form
\* ai-{style}-{date}-{time}-{words}-{id}.png, and that file is in the store
C1_GenerateSucceeds ==
  (/\ Handled("POST /api/generate")
   /\ IsString(req.request.prompt)
   /\ ~Blank(req.request.prompt)
   /\ req.io = "ok")
  => /\ Succeeded(sent)
     /\ \E uuid \in Uuids, c \in ClockSeconds :
          sent[1].body.filename =
            AiPrefix \o StyleOf(req.request) \o Hyphen
              \o SubSeq(ToISOString(c), 1, 10) \o Hyphen
              \o ReplaceAll(SubSeq(ToTimeString(c), 1, 8), ":", "-") \o Hyphen
              \o ToLowerCase(Join(Slice(Split(req.request.prompt.v, " "), 0, 3), Hyphen))
              \o Hyphen \o SubSeq(uuid, 1, 6) \o PngSuffix
     /\ sent[1].body.filename \in CompleteFiles(store)

\* C2: a generate request whose prompt is missing, empty or whitespace-only is
\* answered with the single response 400 {success:false, error:"Prompt is
\* required"}, and the image store is the same after it as before it
C2_BlankPromptRejected ==
  [][(HandledNow("POST /api/generate") /\ Blank(req.request.prompt))
       => (sent' = <<PromptRequired>> /\ store' = store)]_vars

C2_Witness ==
  /\ Handled("POST /api/generate")
  /\ req.request.prompt = Str(<<" ", "\t">>)
  /\ sent = <<PromptRequired>>
  /\ Generated(store) # {}

\* C3: the palette the composer resolves is the key's own colour list for each of
\* the five table keys and the "abstract" list for every other name, composition
\* raises nothing, and the gradient stops are the palette's first two colours
C3_PaletteLookupTotal ==
  /\ cpc # "threw"
  /\ cpc \notin {"idle", "resolve"} =>
       colors = IF HasOwn(AiTemplatesLiteral, cstyle)
                THEN Arr(OwnValue(AiTemplatesLiteral, cstyle))
                ELSE Arr(AbstractColors)
  /\ cpc \in {"shapes", "draw", "restore", "signature", "done"} =>
       gradient = <<colors.v[1], colors.v[2]>>

\* C4: when the directory can be scanned, list-images answers 200 success:true
\* with one entry per directory entry ending in .png, none for any other entry,
\* and count equal to the number of entries in images
C4_ListImagesLists ==
  (Handled("GET /api/images") /\ req.io = "ok")
  => /\ Succeeded(sent)
     /\ {sent[1].body.images[k].filename : k \in 1..Len(sent[1].body.images)}
          = {n \in readdirSync(store) : EndsWith(n, PngSuffix)}
     /\ sent[1].body.count = Len(sent[1].body.images)
     /\ Len(sent[1].body.images)
          = Cardinality({n \in readdirSync(store) : EndsWith(n, PngSuffix)})

\* C5 as stated, for filenames that are plain file names: no successful generate
\* obtains the filename of a file an earlier generate wrote, and each adds exactly
\* one image to the store
C5_FilenamesUnique ==
  [][(/\ HandledNow("POST /api/generate")
      /\ Succeeded(sent')
      /\ ~Contains(sent'[1].body.filename, "/"))
       => /\ sent'[1].body.filename \notin CompleteFiles(store)
          /\ Cardinality(CompleteFiles(store'))
               = Cardinality(CompleteFiles(store)) + 1]_vars

\* C5 amended: a successful generate leaves one complete file at the path its
\* filename addresses and every other file untouched; the number of stored files
\* grows by one when no complete file was at that path and is unchanged when it
\* overwrites one; and no request drawing a different 6-character random id
\* obtains that filename
C5_UniqueUpToRandomId ==
  [][(HandledNow("POST /api/generate") /\ Succeeded(sent'))
       => LET f == sent'[1].body.filename
              path == FilePath(f)
          IN /\ path \in CompleteFiles(store')
             /\ DOMAIN store' = DOMAIN store \cup {path}
             /\ \A g \in DOMAIN store \ {path} : store'[g] = store[g]
             /\ Cardinality(CompleteFiles(store'))
                  = Cardinality(CompleteFiles(store))
                      + (IF path \in CompleteFiles(store) THEN 0 ELSE 1)
             /\ \A uuid \in Uuids, c \in ClockSeconds, p \in PromptInputs,
                   st \in StyleInputs :
                  (IsString(p) /\ Slice(uuid, 0, 6) # RandomIdOf(f))
                    => generateFilename(p.v, StyleOf([style |-> st]), c, uuid) # f]_vars

C5_Witness ==
  /\ Handled("POST /api/generate")
  /\ Succeeded(sent)
  /\ Cardinality(Generated(store) \cap CompleteFiles(store)) >= 2

\* C6: every line the word wrap produces is at most 700 px wide, except a line
\* that is a single word, which is one of the prompt's words, unbroken
C6_WrapWithinWidth ==
  \A k \in 1..Len(lines) :
    \/ MeasureText(lines[k]) <= WrapWidth
    \/ /\ Len(Split(lines[k], " ")) = 1
       /\ lines[k] \in Range(words)

C6_Witness ==
  /\ wpc = "done"
  /\ \E k \in 1..Len(lines) : MeasureText(lines[k]) > WrapWidth
  /\ \E k \in 1..Len(lines) :
       Len(Split(lines[k], " ")) >= 2 /\ MeasureText(lines[k]) > 600

\* The result list-styles is documented to return
ExpectedStyles ==
  << [name |-> AbstractName, colors |-> AbstractColors,
      displayName |-> <<"A","b","s","t","r","a","c","t">>],
     [name |-> NatureName, colors |-> NatureColors,
      displayName |-> <<"N","a","t","u","r","e">>],
     [name |-> TechName, colors |-> TechColors,
      displayName |-> <<"T","e","c","h">>],
     [name |-> SunsetName, colors |-> SunsetColors,
      displayName |-> <<"S","u","n","s","e","t">>],
     [name |-> OceanName, colors |-> OceanColors,
      displayName |-> <<"O","c","e","a","n">>] >>

\* C7: the palette table never changes, and every list-styles call returns the
\* same five styles with their original colours and capitalised display names
C7_StylesImmutable ==
  /\ aiTemplates = AiTemplatesLiteral
  /\ Handled("GET /api/styles") =>
       sent = << Json(200, [success |-> TRUE, styles |-> ExpectedStyles]) >>

C7_Witness ==
  /\ Handled("GET /api/styles")
  /\ Len(sent) = 1
  /\ Generated(store) \cap CompleteFiles(store) # {}
  /\ now > 0

\* C8: every request gets exactly one response; the file a generate success
\* response names (the path its filename addresses) is already completely
\* written; when composition, encoding or the write fails the response is the
\* generic 500, carrying no filename and no url
C8_ResponseAfterWrite ==
  /\ req.state = "handled" => Len(sent) = 1
  /\ (Handled("POST /api/generate") /\ ~Blank(req.request.prompt)) =>
       /\ Succeeded(sent) =>
            /\ req.io = "ok"
            /\ FilePath(sent[1].body.filename) \in CompleteFiles(store)
       /\ (req.io # "ok" \/ ComposeThrows(aiTemplates, StyleOf(req.request))) =>
            sent = <<GenerateError>>
       /\ ~Succeeded(sent) =>
            /\ sent = <<GenerateError>>
            /\ DOMAIN sent[1].body = {"success", "error"}

C8_Witness ==
  /\ Handled("POST /api/generate")
  /\ req.io = "writeCutShort"
  /\ sent = <<GenerateError>>
  /\ \E n \in DOMAIN store : store[n] = "partial"

\* The drawing state the shape loop is entered with
LoopEntryContext == [FreshContext EXCEPT !.fillStyle = "gradient"]

\* C9: at the head of every shape iteration, and when the loop is left for the
\* text, opacity, fill colour, stroke colour and line width are what they were
\* before the first shape: no shape's settings outlive its iteration
C9_RenderStateIsolated ==
  cpc = "shapes" =>
    /\ ctx.globalAlpha = LoopEntryContext.globalAlpha
    /\ ctx.fillStyle = LoopEntryContext.fillStyle
    /\ ctx.strokeStyle = LoopEntryContext.strokeStyle
    /\ ctx.lineWidth = LoopEntryContext.lineWidth
    /\ stack = <<>>

C9_Witness ==
  /\ cpc = "shapes"
  /\ i = NumShapes
  /\ painted.kind = "line"
  /\ painted.width = 9
  /\ painted.alpha = 69

\* C10: a composition draws exactly 20 primitives, and each is painted in the
\* colour sampled for it, a member of the resolved palette
C10_ShapesUsePalette ==
  /\ cpc \in {"signature", "done"} => drawn = NumShapes
  /\ painted.kind # "none" =>
       /\ painted.paint = shape.color
       /\ painted.paint \in Range(colors.v)

====
